---------------------------- MODULE Spec2Model ----------------------------
(***************************************************************************)
(* Model of VerificadorDeSenhas.py: the password scorer                    *)
(* verificar_forca_senha, the k-anonymity breach lookup                    *)
(* verificar_vazamento_pwned and the input loop main.                      *)
(*                                                                         *)
(* A Python str is a sequence of Unicode code points (integers); a bytes   *)
(* object is a sequence of integers in 0..255.  Printed lines and the      *)
(* scorer's messages are TLA+ strings.                                     *)
(***************************************************************************)
EXTENDS Integers, Sequences, FiniteSets, TLC

VARIABLES
    pc,          \* position of the running program
    senha,       \* the password handed to the function / read by main
    pontuacao,   \* verificar_forca_senha: final value of the local pontuacao
    nivel,       \* verificar_forca_senha: returned level
    sugestoes,   \* verificar_forca_senha: returned suggestions
    sha1_senha,  \* verificar_vazamento_pwned: the uppercase hex digest
    reqs,        \* URLs passed to requests.get during the current call
    resposta,    \* what requests.get produced for the current call
    ret,         \* outcome of verificar_vazamento_pwned for the current call
    calls,       \* functions called during the current loop iteration
    out          \* lines printed during the current call / loop iteration

vars == <<pc, senha, pontuacao, nivel, sugestoes, sha1_senha, reqs, resposta,
          ret, calls, out>>

----------------------------------------------------------------------------
(* Bounds of the model *)

MaxCore  == 3    \* length of the free-order patterns scorer inputs are built from
MaxLen   == 13   \* longest scorer input
MaxLines == 2    \* lines in a response body

----------------------------------------------------------------------------
(* Characters *)

IsAsciiLower(c) == c >= 97 /\ c <= 122          \* [a-z]
IsAsciiUpper(c) == c >= 65 /\ c <= 90           \* [A-Z]
IsAsciiDigit(c) == c >= 48 /\ c <= 57           \* [0-9]

\* Non-ASCII letters and digits that occur in the model's inputs:
\* U+00E9 (e acute), U+00C9 (E acute), U+0663 (Arabic-Indic digit three).
NonAsciiLowerLetters == {233}
NonAsciiUpperLetters == {201}
NonAsciiDigits       == {1635}

\* str.isalnum() of one character
IsAlnum(c) == \/ IsAsciiLower(c) \/ IsAsciiUpper(c) \/ IsAsciiDigit(c)
              \/ c \in NonAsciiLowerLetters \cup NonAsciiUpperLetters \cup NonAsciiDigits

\* \w of a str pattern: alphanumeric or underscore
IsWordChar(c) == IsAlnum(c) \/ c = 95

\* str.lower() and str.upper() of one character
LowerChar(c) == IF IsAsciiUpper(c) THEN c + 32
                ELSE IF c \in NonAsciiUpperLetters THEN c + 32 ELSE c
UpperChar(c) == IF IsAsciiLower(c) THEN c - 32
                ELSE IF c \in NonAsciiLowerLetters THEN c - 32 ELSE c

lower(s) == [i \in 1..Len(s) |-> LowerChar(s[i])]
upper(s) == [i \in 1..Len(s) |-> UpperChar(s[i])]

----------------------------------------------------------------------------
(* verificar_forca_senha *)

SugMin8     == "A senha deve ter pelo menos 8 caracteres."
SugMin12    == "Considere usar uma senha com 12 ou mais caracteres."
SugLower    == "Inclua pelo menos uma letra minuscula (a-z)."
SugUpper    == "Inclua pelo menos uma letra maiuscula (A-Z)."
SugDigit    == "Inclua pelo menos um numero (0-9)."
SugSpecial  == "Inclua pelo menos um caractere especial (ex: !@#$)."

MatchesLower(c)   == IsAsciiLower(c)
MatchesUpper(c)   == IsAsciiUpper(c)
MatchesDigit(c)   == IsAsciiDigit(c)
MatchesSpecial(c) == ~IsWordChar(c) \/ c = 95      \* [\W_]

\* re.search(r'[a-z]', senha) and the like: some character is in the class
SearchLower(s)   == \E i \in 1..Len(s) : MatchesLower(s[i])
SearchUpper(s)   == \E i \in 1..Len(s) : MatchesUpper(s[i])
SearchDigit(s)   == \E i \in 1..Len(s) : MatchesDigit(s[i])
SearchSpecial(s) == \E i \in 1..Len(s) : MatchesSpecial(s[i])

\* CheckClass with every class worth one point
CheckClassOnePoint(st, found, pts, sug) ==
    IF found THEN [st EXCEPT !.pontuacao = @ + 1]
    ELSE [st EXCEPT !.sugestoes = Append(@, sug)]

\* one "if re.search(...): pontuacao += pts else: sugestoes.append(sug)"
CheckClass(st, found, pts, sug) ==
    IF found THEN [st EXCEPT !.pontuacao = @ + pts]
    ELSE [st EXCEPT !.sugestoes = Append(@, sug)]

\* CheckLength with the first boundary off by one (n <= 8)
CheckLengthOffByOne(st, n) ==
    IF n <= 8 THEN [pontuacao |-> st.pontuacao - 5, sugestoes |-> Append(st.sugestoes, SugMin8)]
    ELSE IF n < 12 THEN [pontuacao |-> st.pontuacao + 1, sugestoes |-> Append(st.sugestoes, SugMin12)]
    ELSE [st EXCEPT !.pontuacao = @ + 3]

\* CheckLength with a penalty of 3 for a short password
CheckLengthPenalty3(st, n) ==
    IF n < 8 THEN [pontuacao |-> st.pontuacao - 3, sugestoes |-> Append(st.sugestoes, SugMin8)]
    ELSE IF n < 12 THEN [pontuacao |-> st.pontuacao + 1, sugestoes |-> Append(st.sugestoes, SugMin12)]
    ELSE [st EXCEPT !.pontuacao = @ + 3]

CheckLength(st, n) ==
    IF n < 8 THEN [pontuacao |-> st.pontuacao - 5, sugestoes |-> Append(st.sugestoes, SugMin8)]
    ELSE IF n < 12 THEN [pontuacao |-> st.pontuacao + 1, sugestoes |-> Append(st.sugestoes, SugMin12)]
    ELSE [st EXCEPT !.pontuacao = @ + 3]

\* Nivel with inclusive thresholds
NivelInclusive(p) == IF p <= 2 THEN "Muito Fraca"
                     ELSE IF p <= 4 THEN "Fraca"
                     ELSE IF p <= 6 THEN "Media"
                     ELSE "Forte"

Nivel(p) == IF p < 2 THEN "Muito Fraca"
            ELSE IF p < 4 THEN "Fraca"
            ELSE IF p < 6 THEN "Media"
            ELSE "Forte"

verificar_forca_senha(s) ==
    LET s0 == [pontuacao |-> 0, sugestoes |-> <<>>]
        s1 == CheckLength(s0, Len(s))
        s2 == CheckClass(s1, SearchLower(s), 1, SugLower)
        s3 == CheckClass(s2, SearchUpper(s), 1, SugUpper)
        s4 == CheckClass(s3, SearchDigit(s), 1, SugDigit)
        s5 == CheckClass(s4, SearchSpecial(s), 2, SugSpecial)
    IN [pontuacao |-> s5.pontuacao, nivel |-> Nivel(s5.pontuacao),
        sugestoes |-> s5.sugestoes]

----------------------------------------------------------------------------
(* senha.encode('utf-8') *)

IsSurrogate(c) == c >= 55296 /\ c <= 57343       \* U+D800..U+DFFF

EncodeChar(c) ==
    IF c < 128 THEN <<c>>
    ELSE IF c < 2048 THEN <<192 + (c \div 64), 128 + (c % 64)>>
    ELSE IF c < 65536 THEN <<224 + (c \div 4096), 128 + ((c \div 64) % 64), 128 + (c % 64)>>
    ELSE <<240 + (c \div 262144), 128 + ((c \div 4096) % 64),
           128 + ((c \div 64) % 64), 128 + (c % 64)>>

RECURSIVE EncodeFrom(_, _)
EncodeFrom(s, i) == IF i > Len(s) THEN <<>> ELSE EncodeChar(s[i]) \o EncodeFrom(s, i + 1)

\* a lone surrogate cannot be encoded: UnicodeEncodeError
encode_utf8(s) ==
    IF \E i \in 1..Len(s) : IsSurrogate(s[i])
    THEN [raised |-> "UnicodeEncodeError", bytes |-> <<>>]
    ELSE [raised |-> "", bytes |-> EncodeFrom(s, 1)]

----------------------------------------------------------------------------
(* hashlib.sha1(...).hexdigest(): SHA-1 (FIPS 180-4).  A 32-bit word is    *)
(* the pair <<high 16 bits, low 16 bits>>.                                 *)

H16 == 65536

RECURSIVE BitXor(_, _)
BitXor(a, b) == IF a = 0 THEN b ELSE IF b = 0 THEN a
                ELSE (((a % 2) + (b % 2)) % 2) + 2 * BitXor(a \div 2, b \div 2)
RECURSIVE BitAnd(_, _)
BitAnd(a, b) == IF a = 0 \/ b = 0 THEN 0
                ELSE ((a % 2) * (b % 2)) + 2 * BitAnd(a \div 2, b \div 2)
RECURSIVE Pow2(_)
Pow2(n) == IF n = 0 THEN 1 ELSE 2 * Pow2(n - 1)

WXor(x, y) == <<BitXor(x[1], y[1]), BitXor(x[2], y[2])>>
WAnd(x, y) == <<BitAnd(x[1], y[1]), BitAnd(x[2], y[2])>>
WOr(x, y)  == <<x[1] + y[1] - BitAnd(x[1], y[1]), x[2] + y[2] - BitAnd(x[2], y[2])>>
WNot(x)    == <<H16 - 1 - x[1], H16 - 1 - x[2]>>
WAdd(x, y) == LET lo == x[2] + y[2]
              IN <<(x[1] + y[1] + (lo \div H16)) % H16, lo % H16>>
RotL(x, n) == LET y == IF n >= 16 THEN <<x[2], x[1]>> ELSE x
                  k == n % 16
              IN IF k = 0 THEN y
                 ELSE <<((y[1] * Pow2(k)) % H16) + (y[2] \div Pow2(16 - k)),
                        ((y[2] * Pow2(k)) % H16) + (y[1] \div Pow2(16 - k))>>

RECURSIVE BigEndian(_, _)
BigEndian(v, n) == IF n = 0 THEN <<>> ELSE BigEndian(v \div 256, n - 1) \o <<v % 256>>

\* the message, a 1 bit, zero bits up to 56 mod 64 bytes, the bit length on 8 bytes
Sha1Pad(bytes) ==
    LET l == Len(bytes)
        k == (119 - l) % 64
    IN bytes \o <<128>> \o [i \in 1..k |-> 0] \o BigEndian(8 * l, 8)

Sha1Word(m, i) == <<m[i] * 256 + m[i+1], m[i+2] * 256 + m[i+3]>>

RECURSIVE Sha1Schedule(_)
Sha1Schedule(w) ==
    IF Len(w) = 80 THEN w
    ELSE LET t == Len(w) + 1
             x == WXor(WXor(w[t-3], w[t-8]), WXor(w[t-14], w[t-16]))
         IN Sha1Schedule(Append(w, RotL(x, 1)))

Sha1F(t, b, c, d) ==
    IF t < 20 THEN WOr(WAnd(b, c), WAnd(WNot(b), d))
    ELSE IF t < 40 THEN WXor(WXor(b, c), d)
    ELSE IF t < 60 THEN WOr(WOr(WAnd(b, c), WAnd(b, d)), WAnd(c, d))
    ELSE WXor(WXor(b, c), d)

\* 5A827999, 6ED9EBA1, 8F1BBCDC, CA62C1D6
Sha1K(t) == IF t < 20 THEN <<23170, 31129>>
            ELSE IF t < 40 THEN <<28377, 60321>>
            ELSE IF t < 60 THEN <<36635, 48348>>
            ELSE <<51810, 49622>>

Sha1Step(w, t, s) ==
    LET tmp == WAdd(WAdd(WAdd(RotL(s[1], 5), Sha1F(t, s[2], s[3], s[4])),
                         WAdd(s[5], Sha1K(t))), w[t+1])
    IN <<tmp, s[1], RotL(s[2], 30), s[3], s[4]>>

\* the 80 rounds; tr is the sequence of working states so far
RECURSIVE Sha1Rounds(_, _)
Sha1Rounds(w, tr) ==
    IF Len(tr) = 81 THEN tr[81]
    ELSE Sha1Rounds(w, Append(tr, Sha1Step(w, Len(tr) - 1, tr[Len(tr)])))

\* 67452301, EFCDAB89, 98BADCFE, 10325476, C3D2E1F0
Sha1H0 == << <<26437, 8961>>, <<61389, 43913>>, <<39098, 56574>>,
             <<4146, 21622>>, <<50130, 57840>> >>

RECURSIVE Sha1Blocks(_, _, _)
Sha1Blocks(m, i, h) ==
    IF i > Len(m) THEN h
    ELSE LET w == Sha1Schedule([j \in 1..16 |-> Sha1Word(m, i + 4 * (j - 1))])
             s == Sha1Rounds(w, <<h>>)
         IN Sha1Blocks(m, i + 64, [j \in 1..5 |-> WAdd(h[j], s[j])])

sha1(bytes) == Sha1Blocks(Sha1Pad(bytes), 1, Sha1H0)

HexChar(n) == IF n < 10 THEN 48 + n ELSE 87 + n        \* 0-9, a-f
RECURSIVE HexOf(_, _)
HexOf(v, n) == IF n = 0 THEN <<>> ELSE HexOf(v \div 16, n - 1) \o <<HexChar(v % 16)>>
RECURSIVE hexdigest(_)
hexdigest(h) == IF h = <<>> THEN <<>>
                ELSE HexOf(h[1][1], 4) \o HexOf(h[1][2], 4) \o hexdigest(Tail(h))

----------------------------------------------------------------------------
(* resposta.text.splitlines(), linha.split(':'), int(contagem) *)

CR == 13
LF == 10
Colon == 58

\* the line boundaries of str.splitlines()
LineBreaks == {10, 11, 12, 13, 28, 29, 30, 133, 8232, 8233}

Min(S) == CHOOSE x \in S : \A y \in S : x <= y

\* the pieces of s that start at the positions in starts and run up to the
\* next position in stops (or the end of s), in order
Pieces(s, starts, stops, width) ==
    LET k == Cardinality(starts)
        nth(j) == CHOOSE a \in starts : Cardinality({b \in starts : b <= a}) = j
        upto(a) == LET after == {e \in stops : e >= a}
                   IN IF after = {} THEN Len(s) ELSE Min(after) - width[Min(after)]
    IN [j \in 1..k |-> SubSeq(s, nth(j), upto(nth(j)))]

splitlines(text) ==
    LET n == Len(text)
        \* last character of each line terminator; "\r\n" is one terminator
        ends == {i \in 1..n : /\ text[i] \in LineBreaks
                              /\ ~(text[i] = CR /\ i < n /\ text[i+1] = LF)}
        starts == {a \in {1} \cup {e + 1 : e \in ends} : a <= n}
        width == [e \in ends |-> IF text[e] = LF /\ e > 1 /\ text[e-1] = CR
                                  THEN 2 ELSE 1]
    IN Pieces(text, starts, ends, width)

split(linha, sep) ==
    LET n == Len(linha)
        seps == {i \in 1..n : linha[i] = sep}
        starts == {1} \cup {e + 1 : e \in seps}
        width == [e \in seps |-> 1]
    IN Pieces(linha, starts, seps, width)

\* str.isspace() of one character
Whitespace == {9, 10, 11, 12, 13, 28, 29, 30, 31, 32, 133, 160}

RECURSIVE lstrip(_)
lstrip(s) == IF s # <<>> /\ Head(s) \in Whitespace THEN lstrip(Tail(s)) ELSE s
RECURSIVE rstrip(_)
rstrip(s) == IF s # <<>> /\ s[Len(s)] \in Whitespace
             THEN rstrip(SubSeq(s, 1, Len(s) - 1)) ELSE s

IsDecimal(c) == IsAsciiDigit(c) \/ c \in NonAsciiDigits
DigitValue(c) == IF IsAsciiDigit(c) THEN c - 48 ELSE c - 1632

RECURSIVE DigitsValue(_, _)
DigitsValue(d, acc) == IF d = <<>> THEN acc
                       ELSE IF Head(d) = 95 THEN DigitsValue(Tail(d), acc)
                       ELSE DigitsValue(Tail(d), 10 * acc + DigitValue(Head(d)))

\* int(s): surrounding whitespace, an optional sign, decimal digits with
\* single underscores between them; anything else is a ValueError
int(s) ==
    LET t == rstrip(lstrip(s))
        signed == t # <<>> /\ Head(t) \in {43, 45}
        d == IF signed THEN Tail(t) ELSE t
        ok == /\ d # <<>>
              /\ \A i \in 1..Len(d) : IsDecimal(d[i]) \/ d[i] = 95
              /\ IsDecimal(d[1]) /\ IsDecimal(d[Len(d)])
              /\ \A i \in 1..(Len(d) - 1) : ~(d[i] = 95 /\ d[i+1] = 95)
    IN IF ~ok THEN [raised |-> "ValueError", value |-> 0]
       ELSE [raised |-> "",
             value |-> IF signed /\ Head(t) = 45 THEN 0 - DigitsValue(d, 0)
                       ELSE DigitsValue(d, 0)]

----------------------------------------------------------------------------
(* verificar_vazamento_pwned *)

\* "https://api.pwnedpasswords.com/range/"
UrlBase == <<104, 116, 116, 112, 115, 58, 47, 47, 97, 112, 105, 46, 112, 119,
             110, 101, 100, 112, 97, 115, 115, 119, 111, 114, 100, 115, 46,
             99, 111, 109, 47, 114, 97, 110, 103, 101, 47>>

PrefixLen == 5
HTTP_OK == 200

prefixo_hash(digest) == SubSeq(digest, 1, PrefixLen)              \* sha1_senha[:5]
sufixo_hash(digest)  == SubSeq(digest, PrefixLen + 1, Len(digest)) \* sha1_senha[5:]

\* url with the whole digest in the path
UrlWholeDigest(digest) == UrlBase \o digest

url(digest) == UrlBase \o prefixo_hash(digest)

AvisoStatus  == "[AVISO] Erro ao verificar vazamentos (API retornou {status_code})."
AvisoConexao == "[AVISO] Erro de conexao ao verificar vazamentos: {e}"

Printed(line, n) == [line |-> line, n |-> n]

Returned(vazou, contagem) ==
    [raised |-> "", returned |-> TRUE, vazou |-> vazou, contagem |-> contagem]
Raised(e) == [raised |-> e, returned |-> FALSE, vazou |-> FALSE, contagem |-> 0]
NoReturn == [raised |-> "", returned |-> FALSE, vazou |-> FALSE, contagem |-> 0]

NoResponse == [kind |-> "none", status |-> 0, text |-> <<>>]
HttpResponse(status, text) == [kind |-> "response", status |-> status, text |-> text]
RequestException == [kind |-> "RequestException", status |-> 0, text |-> <<>>]

\* lines 81-87, up to the call of requests.get: the digest and the request
PwnedStart(s) ==
    LET enc == encode_utf8(s)
        digest == upper(hexdigest(sha1(enc.bytes)))
    IN IF enc.raised # ""
       THEN [ret |-> Raised(enc.raised), sha1_senha |-> <<>>, reqs |-> <<>>]
       ELSE [ret |-> NoReturn, sha1_senha |-> digest, reqs |-> <<url(digest)>>]

\* ScanLines without the early return: a later matching line wins
RECURSIVE ScanLinesLast(_, _, _)
ScanLinesLast(linhas, i, sufixo) ==
    IF i > Len(linhas) THEN Returned(FALSE, 0)
    ELSE LET campos == split(linhas[i], Colon)
             rest == ScanLinesLast(linhas, i + 1, sufixo)
         IN IF Len(campos) # 2 THEN Raised("ValueError")
            ELSE IF campos[1] = sufixo /\ ~rest.vazou /\ rest.raised = ""
                 THEN LET n == int(campos[2])
                      IN IF n.raised # "" THEN Raised(n.raised)
                         ELSE Returned(TRUE, n.value)
                 ELSE rest

\* lines 97-100 and 107: the loop over the split lines, from line i on
RECURSIVE ScanLines(_, _, _)
ScanLines(linhas, i, sufixo) ==
    IF i > Len(linhas) THEN Returned(FALSE, 0)
    ELSE LET campos == split(linhas[i], Colon)
         IN IF Len(campos) # 2 THEN Raised("ValueError")     \* unpacking into two names
            ELSE IF campos[1] = sufixo
                 THEN LET n == int(campos[2])
                      IN IF n.raised # "" THEN Raised(n.raised)
                         ELSE Returned(TRUE, n.value)
                 ELSE ScanLines(linhas, i + 1, sufixo)

\* PwnedFinish without the status check: the body is scanned whatever the status
PwnedFinishAnyStatus(sufixo, resp) ==
    IF resp.kind = "RequestException"
    THEN [ret |-> Returned(FALSE, 0), out |-> <<Printed(AvisoConexao, 0)>>]
    ELSE [ret |-> ScanLines(splitlines(resp.text), 1, sufixo), out |-> <<>>]

\* lines 89-107, from the return of requests.get on
PwnedFinish(sufixo, resp) ==
    IF resp.kind = "RequestException"
    THEN [ret |-> Returned(FALSE, 0), out |-> <<Printed(AvisoConexao, 0)>>]
    ELSE IF resp.status # HTTP_OK
    THEN [ret |-> Returned(FALSE, 0), out |-> <<Printed(AvisoStatus, resp.status)>>]
    ELSE [ret |-> ScanLines(splitlines(resp.text), 1, sufixo), out |-> <<>>]

----------------------------------------------------------------------------
(* Inputs *)

\* a, A, 1, !, _, U+00E9, U+00C9, U+0663
Alphabet == {97, 65, 49, 33, 95, 233, 201, 1635}

\* every pattern of at most MaxCore characters, and every non-empty set of
\* characters of the alphabet in ascending order
Ordered(S) == [j \in 1..Cardinality(S) |->
                 CHOOSE a \in S : Cardinality({b \in S : b <= a}) = j]

Cores == UNION {[1..k -> Alphabet] : k \in 1..MaxCore}
         \cup {Ordered(S) : S \in (SUBSET Alphabet) \ {{}}}

\* the pattern core repeated (and cut) to length n
Cycle(core, n) == [i \in 1..n |-> core[((i - 1) % Len(core)) + 1]]

\* "password"
PasswordLiteral == <<112, 97, 115, 115, 119, 111, 114, 100>>

ScorerInputs == {Cycle(c, n) : c \in Cores, n \in 0..MaxLen} \cup {PasswordLiteral}

\* "", "password", "senha266" and "senha144" (digests 1130B9338E... and
\* 1130B8CE38...: the same range), "Senha@123456", U+00E9 U+00C9 U+0663 "!",
\* and a lone surrogate U+DC80
PwnedInputs ==
    { <<>>,
      PasswordLiteral,
      <<115, 101, 110, 104, 97, 50, 54, 54>>,
      <<115, 101, 110, 104, 97, 49, 52, 52>>,
      <<83, 101, 110, 104, 97, 64, 49, 50, 51, 52, 53, 54>>,
      <<233, 201, 1635, 33>>,
      <<56448>> }

\* "sair"
Sair == <<115, 97, 105, 114>>

\* what the user may type: the passwords above, and "sair", "SAIR", "Sair", "sAiR"
MainInputs == PwnedInputs \cup
              {Sair, <<83, 65, 73, 82>>, <<83, 97, 105, 114>>, <<115, 65, 105, 82>>}

\* "3730471", "12", "<html>"; the pool also has the counts "7", "5", "x1", "1:2"
Count1 == <<51, 55, 51, 48, 52, 55, 49>>
Count2 == <<49, 50>>
Garbage == <<60, 104, 116, 109, 108, 62>>

\* another suffix of the same range: the suffix rotated by one character
OtherSuffix(sufixo) == Tail(sufixo) \o <<Head(sufixo)>>

\* lines a response body is made of, for a lookup of the suffix sufixo
LinePool(sufixo) ==
    { sufixo \o <<Colon>> \o Count1,
      sufixo \o <<Colon>> \o Count2,
      OtherSuffix(sufixo) \o <<Colon, 55>>,
      lower(sufixo) \o <<Colon, 53>>,
      sufixo \o <<Colon, 120, 49>>,
      sufixo \o <<Colon, 49, Colon, 50>>,
      Garbage,
      <<>> }

RECURSIVE Join(_, _)
Join(linhas, sep) == IF linhas = <<>> THEN <<>>
                     ELSE IF Len(linhas) = 1 THEN linhas[1]
                     ELSE linhas[1] \o sep \o Join(Tail(linhas), sep)

Bodies(sufixo) ==
    {Join(ls, sep) : ls \in UNION {[1..k -> LinePool(sufixo)] : k \in 0..MaxLines},
                     sep \in {<<LF>>, <<CR, LF>>}}

Statuses == {HTTP_OK, 404, 503}

\* everything requests.get may produce
Outcomes(sufixo) ==
    {RequestException} \cup
    {HttpResponse(st, b) : st \in Statuses, b \in Bodies(sufixo)}

----------------------------------------------------------------------------
(* State *)

NoInput == <<>>

InitCommon ==
    /\ pontuacao = 0
    /\ nivel = ""
    /\ sugestoes = <<>>
    /\ sha1_senha = <<>>
    /\ reqs = <<>>
    /\ resposta = NoResponse
    /\ ret = NoReturn
    /\ calls = <<>>

----------------------------------------------------------------------------
(* verificar_forca_senha called on any input *)

InitScorer ==
    /\ pc = "score"
    /\ senha \in ScorerInputs
    /\ out = <<>>
    /\ InitCommon

Scorer_Call ==
    /\ pc = "score"
    /\ LET r == verificar_forca_senha(senha)
       IN /\ pontuacao' = r.pontuacao
          /\ nivel' = r.nivel
          /\ sugestoes' = r.sugestoes
    /\ pc' = "scored"
    /\ calls' = <<"verificar_forca_senha">>
    /\ UNCHANGED <<senha, sha1_senha, reqs, resposta, ret, out>>

NextScorer == Scorer_Call

SpecScorer == InitScorer /\ [][NextScorer]_vars

----------------------------------------------------------------------------
(* verificar_vazamento_pwned called on any input *)

InitPwned ==
    /\ pc = "call"
    /\ senha \in PwnedInputs
    /\ out = <<>>
    /\ InitCommon

\* lines 79-87: the function runs up to requests.get
Pwned_Get ==
    /\ pc = "call"
    /\ LET st == PwnedStart(senha)
       IN /\ sha1_senha' = st.sha1_senha
          /\ reqs' = st.reqs
          /\ ret' = st.ret
          /\ pc' = IF st.ret.raised # "" THEN "raised" ELSE "waiting"
    /\ calls' = <<"verificar_vazamento_pwned">>
    /\ UNCHANGED <<senha, pontuacao, nivel, sugestoes, resposta, out>>

\* lines 87-107: requests.get returns or raises, the function finishes
Pwned_Return ==
    /\ pc = "waiting"
    /\ \E resp \in Outcomes(sufixo_hash(sha1_senha)) :
          LET fin == PwnedFinish(sufixo_hash(sha1_senha), resp)
          IN /\ resposta' = resp
             /\ ret' = fin.ret
             /\ out' = out \o fin.out
             /\ pc' = IF fin.ret.raised # "" THEN "raised" ELSE "returned"
    /\ UNCHANGED <<senha, pontuacao, nivel, sugestoes, sha1_senha, reqs, calls>>

NextPwned == Pwned_Get \/ Pwned_Return

SpecPwned == InitPwned /\ [][NextPwned]_vars

----------------------------------------------------------------------------
(* main *)

Banner == << Printed("Verificador de Forca de Senha", 0),
             Printed("Digite uma senha para analise (ou 'sair' para fechar).", 0) >>

RECURSIVE Bullets(_)
Bullets(sugs) == IF sugs = <<>> THEN <<>>
                 ELSE <<Printed("- " \o Head(sugs), 0)>> \o Bullets(Tail(sugs))

\* lines 135-142
PrintedAnalysis(r) ==
    << Printed("Resultado da Analise:", 0),
       Printed("[ Forca da Senha: " \o r.nivel \o " ]", 0) >>
    \o (IF r.sugestoes # <<>>
        THEN <<Printed("Sugestoes para melhorar:", 0)>> \o Bullets(r.sugestoes)
        ELSE <<>>)
    \o <<Printed("Verificando em vazamentos de dados...", 0)>>

\* lines 144-151
PrintedLookup(r) ==
    (IF r.vazou
     THEN << Printed("!!! ALERTA !!! Esta senha e INSEGURA.", 0),
             Printed("Ela ja apareceu {contagem:,} vezes em vazamentos de dados conhecidos.",
                     r.contagem),
             Printed("Por favor, escolha outra senha.", 0) >>
     ELSE <<Printed("INFO: Senha nao encontrada em vazamentos publicos conhecidos.", 0)>>)
    \o <<Printed("------------------------------", 0)>>

InitMain ==
    /\ pc = "prompt"
    /\ senha = NoInput
    /\ out = Banner
    /\ InitCommon

\* IsSair without lower(): only the exact word is the sentinel
IsSairExact(s) == s = Sair

\* line 124: senha_usuario.lower() == 'sair'
IsSair(s) == lower(s) = Sair

\* lines 124-126: "sair" in any case ends the loop
Main_Sair(s) ==
    /\ IsSair(s)
    /\ out' = <<Printed("Ate logo!", 0)>>
    /\ pc' = "done"
    /\ calls' = <<>>
    /\ UNCHANGED <<pontuacao, nivel, sugestoes>>

\* lines 128-130: nothing typed, back to the prompt
Main_Vazia(s) ==
    /\ ~IsSair(s)
    /\ s = <<>>
    /\ out' = <<Printed("Nenhuma senha digitada. Tente novamente.", 0)>>
    /\ pc' = "prompt"
    /\ calls' = <<>>
    /\ UNCHANGED <<pontuacao, nivel, sugestoes>>

\* lines 133-142: the analysis and its printing
Main_Avalia(s) ==
    /\ ~IsSair(s)
    /\ s # <<>>
    /\ LET r == verificar_forca_senha(s)
       IN /\ pontuacao' = r.pontuacao
          /\ nivel' = r.nivel
          /\ sugestoes' = r.sugestoes
          /\ out' = PrintedAnalysis(r)
    /\ pc' = "analysed"
    /\ calls' = <<"verificar_forca_senha">>

\* lines 117-142: one pass of the loop from the prompt (masked_getpass, or
\* input() when masking fails) to the call of verificar_vazamento_pwned
Main_Read ==
    /\ pc = "prompt"
    /\ \E s \in MainInputs :
          /\ senha' = s
          /\ \/ Main_Sair(s)
             \/ Main_Vazia(s)
             \/ Main_Avalia(s)
    /\ sha1_senha' = <<>>
    /\ reqs' = <<>>
    /\ resposta' = NoResponse
    /\ ret' = NoReturn

\* line 143 and, inside verificar_vazamento_pwned, lines 79-87
Main_Call ==
    /\ pc = "analysed"
    /\ LET st == PwnedStart(senha)
       IN /\ sha1_senha' = st.sha1_senha
          /\ reqs' = st.reqs
          /\ ret' = st.ret
          /\ pc' = IF st.ret.raised # "" THEN "aborted" ELSE "lookup"
    /\ calls' = Append(calls, "verificar_vazamento_pwned")
    /\ UNCHANGED <<senha, pontuacao, nivel, sugestoes, resposta, out>>

\* requests.get returns or raises: lines 87-107, then 144-151 and back to the prompt
Main_Lookup ==
    /\ pc = "lookup"
    /\ \E resp \in Outcomes(sufixo_hash(sha1_senha)) :
          LET fin == PwnedFinish(sufixo_hash(sha1_senha), resp)
          IN /\ resposta' = resp
             /\ ret' = fin.ret
             /\ IF fin.ret.raised # ""
                THEN /\ out' = out \o fin.out
                     /\ pc' = "aborted"
                ELSE /\ out' = out \o fin.out \o PrintedLookup(fin.ret)
                     /\ pc' = "prompt"
    /\ UNCHANGED <<senha, pontuacao, nivel, sugestoes, sha1_senha, reqs, calls>>

Next == Main_Read \/ Main_Call \/ Main_Lookup

Init == InitMain

Spec == Init /\ [][Next]_vars

----------------------------------------------------------------------------
(* Properties of verificar_forca_senha, checked under SpecScorer *)

Chars(s) == {s[i] : i \in 1..Len(s)}

\* the character classes as the program's own messages name them: a-z, A-Z,
\* 0-9, and "special" for whatever is neither a letter nor a digit
HasAZLower(s)   == \E c \in Chars(s) : c \in 97..122
HasAZUpper(s)   == \E c \in Chars(s) : c \in 65..90
Has09Digit(s)   == \E c \in Chars(s) : c \in 48..57
HasNonAlnum(s)  == \E c \in Chars(s) : ~IsAlnum(c)

\* the classes read over all of Unicode
HasLowercaseLetter(s) == \E c \in Chars(s) : c \in 97..122 \/ c \in NonAsciiLowerLetters
HasUppercaseLetter(s) == \E c \in Chars(s) : c \in 65..90 \/ c \in NonAsciiUpperLetters
HasDigit(s)           == \E c \in Chars(s) : c \in 48..57 \/ c \in NonAsciiDigits

\* the classes read over ASCII alone
HasNonAlnumAscii(s) == \E c \in Chars(s) : ~(c \in 97..122 \/ c \in 65..90 \/ c \in 48..57)

Points(present, pts) == IF present THEN pts ELSE 0
Missing(present, sug) == IF present THEN <<>> ELSE <<sug>>

RefLengthPoints(n) == IF n >= 12 THEN 3 ELSE IF n >= 8 THEN 1 ELSE 0 - 5

RefScore(n, lo, up, di, sp) ==
    RefLengthPoints(n) + Points(lo, 1) + Points(up, 1) + Points(di, 1) + Points(sp, 2)

RefLevel(p) == CASE p < 2 -> "Muito Fraca"
                 [] p >= 2 /\ p < 4 -> "Fraca"
                 [] p >= 4 /\ p < 6 -> "Media"
                 [] OTHER -> "Forte"

RefSuggestions(n, lo, up, di, sp) ==
    (IF n < 8 THEN <<SugMin8>> ELSE IF n < 12 THEN <<SugMin12>> ELSE <<>>)
    \o Missing(lo, SugLower) \o Missing(up, SugUpper)
    \o Missing(di, SugDigit) \o Missing(sp, SugSpecial)

\* the returned pair is the reference result for the given class flags
IsReference(n, lo, up, di, sp) ==
    /\ nivel = RefLevel(RefScore(n, lo, up, di, sp))
    /\ sugestoes = RefSuggestions(n, lo, up, di, sp)

\* C5 as stated: the result is the reference result, with lowercase, uppercase,
\* digit and non-alphanumeric read uniformly (over Unicode, or over ASCII).
C5_ReferenceUniformClasses ==
    pc = "scored" =>
        \/ IsReference(Len(senha), HasLowercaseLetter(senha), HasUppercaseLetter(senha),
                       HasDigit(senha), HasNonAlnum(senha))
        \/ IsReference(Len(senha), HasAZLower(senha), HasAZUpper(senha),
                       Has09Digit(senha), HasNonAlnumAscii(senha))

\* C5 amended: for every password the result is the reference result when
\* lowercase, uppercase and digit mean a-z, A-Z and 0-9 and non-alphanumeric
\* means a character that is neither a letter nor a digit of any script (so
\* the underscore counts): the level is the threshold of the summed points and
\* the suggestions are one per failing check, in the fixed order.
C5_ReferenceResult ==
    pc = "scored" =>
        IsReference(Len(senha), HasAZLower(senha), HasAZUpper(senha),
                    Has09Digit(senha), HasNonAlnum(senha))

\* a scored password that fails every check but one in the middle of the order,
\* with a letter outside a-z in it
C5_Witness ==
    /\ pc = "scored"
    /\ Len(senha) >= 8 /\ Len(senha) < 12
    /\ HasAZUpper(senha) /\ ~HasAZLower(senha) /\ ~Has09Digit(senha) /\ ~HasNonAlnum(senha)
    /\ \E c \in Chars(senha) : c \in NonAsciiLowerLetters
    /\ sugestoes = <<SugMin12, SugLower, SugDigit, SugSpecial>>

\* C6 as stated: length >= 12 with a lowercase letter, an uppercase letter, a
\* digit and a non-alphanumeric character gives a score >= 8 and "Forte".
C6_AllClassesStrong ==
    (/\ pc = "scored"
     /\ Len(senha) >= 12
     /\ HasLowercaseLetter(senha) /\ HasUppercaseLetter(senha)
     /\ HasDigit(senha) /\ HasNonAlnum(senha))
    => (pontuacao >= 8 /\ nivel = "Forte")

\* C6 amended: length >= 12 with a letter a-z, a letter A-Z, a digit 0-9 and a
\* character that is neither a letter nor a digit gives a score >= 8 and "Forte".
C6_AsciiClassesStrong ==
    (/\ pc = "scored"
     /\ Len(senha) >= 12
     /\ HasAZLower(senha) /\ HasAZUpper(senha)
     /\ Has09Digit(senha) /\ HasNonAlnum(senha))
    => (pontuacao >= 8 /\ nivel = "Forte")

C6_Witness ==
    /\ pc = "scored"
    /\ Len(senha) = 12
    /\ HasAZLower(senha) /\ HasAZUpper(senha) /\ Has09Digit(senha) /\ HasNonAlnum(senha)
    /\ nivel = "Forte"

\* C7 as stated: "password" scores 2, is rated "Fraca" and gets three suggestions.
C7_PasswordThreeSuggestions ==
    (pc = "scored" /\ senha = PasswordLiteral)
    => (pontuacao = 2 /\ nivel = "Fraca" /\ Len(sugestoes) = 3)

\* C7 amended: "password" scores 2, is rated "Fraca" and gets four suggestions:
\* the 12-or-more-characters one, then the three for the missing classes.
C7_PasswordFourSuggestions ==
    (pc = "scored" /\ senha = PasswordLiteral)
    => /\ pontuacao = 2
       /\ nivel = "Fraca"
       /\ sugestoes = <<SugMin12, SugUpper, SugDigit, SugSpecial>>

C7_Witness == pc = "scored" /\ senha = PasswordLiteral /\ nivel = "Fraca"

\* C10: a password shorter than 8 characters is rated "Muito Fraca" whatever
\* its classes, and its first suggestion is the minimum-length one.
C10_ShortIsVeryWeak ==
    (pc = "scored" /\ Len(senha) < 8)
    => (nivel = "Muito Fraca" /\ sugestoes # <<>> /\ sugestoes[1] = SugMin8)

\* seven characters with all four classes: every class point earned
C10_Witness ==
    /\ pc = "scored"
    /\ Len(senha) = 7
    /\ HasAZLower(senha) /\ HasAZUpper(senha) /\ Has09Digit(senha) /\ HasNonAlnum(senha)
    /\ pontuacao = 0
    /\ sugestoes = <<SugMin8>>

----------------------------------------------------------------------------
(* Properties of verificar_vazamento_pwned, checked under SpecPwned *)

\* s occurs in t as a run of consecutive characters
Contains(t, s) ==
    \E i \in 1..(Len(t) - Len(s) + 1) : SubSeq(t, i, i + Len(s) - 1) = s

IsUpperHex(c) == c \in 48..57 \/ c \in 65..70

\* the lookup failed: a transport error or a status other than 200
LookupFailed == \/ resposta.kind = "RequestException"
                \/ resposta.kind = "response" /\ resposta.status # 200

\* C1: whatever requests.get produces, the call returns a pair, and the pair
\* is (False, 0) when the lookup failed.
C1_NeverRaises ==
    resposta.kind # "none" =>
        /\ pc = "returned"
        /\ ret.raised = "" /\ ret.returned
        /\ LookupFailed => (~ret.vazou /\ ret.contagem = 0)

\* C2: the request carries the 5-character prefix of the digest and nothing
\* else of the password: it is the fixed base followed by the prefix, the
\* suffix does not occur in it, and every password whose digest has the same
\* prefix produces the same request.
C2_PrefixOnly ==
    pc = "waiting" =>
        /\ Len(sha1_senha) = 40
        /\ \A i \in 1..40 : IsUpperHex(sha1_senha[i])
        /\ reqs = <<UrlBase \o SubSeq(sha1_senha, 1, 5)>>
        /\ ~Contains(reqs[1], SubSeq(sha1_senha, 6, 40))
        /\ \A q \in PwnedInputs :
              LET o == PwnedStart(q)
              IN (o.reqs # <<>> /\ SubSeq(o.sha1_senha, 1, 5) = SubSeq(sha1_senha, 1, 5))
                 => o.reqs = reqs

\* "senha266" has been hashed to 1130B..., the request is out, and another
\* password ("senha144") has the same prefix and another suffix
C2_Witness ==
    /\ pc = "waiting"
    /\ senha = <<115, 101, 110, 104, 97, 50, 54, 54>>
    /\ SubSeq(sha1_senha, 1, 5) = <<49, 49, 51, 48, 66>>
    /\ \E q \in PwnedInputs :
          LET o == PwnedStart(q)
          IN /\ q # senha
             /\ o.reqs = reqs
             /\ o.sha1_senha # sha1_senha

\* position of the colon of a SUFFIX:COUNT line
ColonAt(linha) == CHOOSE i \in 1..Len(linha) : linha[i] = Colon
SuffixOf(linha) == SubSeq(linha, 1, ColonAt(linha) - 1)
CountOf(linha)  == SubSeq(linha, ColonAt(linha) + 1, Len(linha))

RECURSIVE Decimal(_)
Decimal(d) == IF d = <<>> THEN 0 ELSE 10 * Decimal(SubSeq(d, 1, Len(d) - 1)) + (d[Len(d)] - 48)

\* a line with one colon and a decimal count after it
IsPairLine(linha) ==
    /\ Cardinality({i \in 1..Len(linha) : linha[i] = Colon}) = 1
    /\ CountOf(linha) # <<>>
    /\ \A i \in 1..Len(CountOf(linha)) : CountOf(linha)[i] \in 48..57

\* the answer was 200 with a body of SUFFIX:COUNT lines
AnsweredPairs ==
    /\ resposta.kind = "response"
    /\ resposta.status = 200
    /\ \A i \in 1..Len(splitlines(resposta.text)) : IsPairLine(splitlines(resposta.text)[i])

\* C3: on a 200 answer with a body of SUFFIX:COUNT lines the call returns
\* (True, n) exactly when some line's suffix is the computed one, n being the
\* count of the first such line, and (False, 0) otherwise.
C3_FirstMatchingLine ==
    AnsweredPairs =>
        LET linhas == splitlines(resposta.text)
            hits == {i \in 1..Len(linhas) : SuffixOf(linhas[i]) = SubSeq(sha1_senha, 6, 40)}
        IN /\ pc = "returned"
           /\ ret.returned
           /\ ret.vazou <=> hits # {}
           /\ ret.contagem = IF hits = {} THEN 0 ELSE Decimal(CountOf(linhas[Min(hits)]))

\* two lines carry the computed suffix with different counts, after a line
\* that ends in "\r\n"; the first count (3730471) is returned
C3_Witness ==
    /\ AnsweredPairs
    /\ LET linhas == splitlines(resposta.text)
       IN /\ Len(linhas) = 2
          /\ SuffixOf(linhas[1]) = SubSeq(sha1_senha, 6, 40)
          /\ SuffixOf(linhas[2]) = SubSeq(sha1_senha, 6, 40)
          /\ CountOf(linhas[1]) = Count1
          /\ CountOf(linhas[2]) = Count2
    /\ Contains(resposta.text, <<CR, LF>>)
    /\ ret.vazou /\ ret.contagem = 3730471

\* C4: on a status other than 200, or a request error, the call prints one
\* warning and returns (False, 0); the body is not looked at and exactly one
\* request has been made.
C4_FailedLookup ==
    LookupFailed =>
        /\ pc = "returned"
        /\ ret = Returned(FALSE, 0)
        /\ Len(out) = 1
        /\ out[1].line = (IF resposta.kind = "response" THEN AvisoStatus ELSE AvisoConexao)
        /\ out[1].n = resposta.status
        /\ Len(reqs) = 1

\* a 404 whose body starts with the line that would match
C4_Witness ==
    /\ resposta.kind = "response"
    /\ resposta.status = 404
    /\ Len(resposta.text) > 35
    /\ SubSeq(resposta.text, 1, 35) = SubSeq(sha1_senha, 6, 40)
    /\ resposta.text[36] = Colon
    /\ pc = "returned"
    /\ ret = Returned(FALSE, 0)

----------------------------------------------------------------------------
(* Properties of main, checked under Spec *)

\* "sair" in any letter case
IsSentinel(s) ==
    /\ Len(s) = 4
    /\ s[1] \in {115, 83} /\ s[2] \in {97, 65} /\ s[3] \in {105, 73} /\ s[4] \in {114, 82}

\* C8: an input that is "sair" in any letter case ends the loop, an empty
\* input leads back to the prompt, and neither is evaluated: no function is
\* called for it and no request is made.
C8_SentinelAndEmpty ==
    /\ IsSentinel(senha) <=> pc = "done"
    /\ IsSentinel(senha) =>
          /\ calls = <<>> /\ reqs = <<>> /\ resposta = NoResponse
          /\ out = <<Printed("Ate logo!", 0)>>
    /\ senha = <<>> =>
          /\ pc = "prompt"
          /\ calls = <<>> /\ reqs = <<>> /\ resposta = NoResponse
          /\ out \in {Banner, <<Printed("Nenhuma senha digitada. Tente novamente.", 0)>>}

\* "SAIR" typed after a password has been evaluated: the loop is over and the
\* earlier result is untouched
C8_Witness ==
    /\ pc = "done"
    /\ senha = <<83, 65, 73, 82>>
    /\ nivel # ""
    /\ calls = <<>> /\ reqs = <<>>

ScorePrinted == \E i \in 1..Len(out) : out[i].line = "[ Forca da Senha: " \o nivel \o " ]"

\* C9: the scoring result is printed before the lookup starts, and whatever
\* requests.get produces the loop is back at the prompt with the result printed.
C9_LookupNeverAborts ==
    /\ pc \in {"analysed", "lookup", "aborted"} => ScorePrinted
    /\ resposta.kind # "none" => (pc = "prompt" /\ ScorePrinted)

============================================================================
